---- MODULE Spec2Model ----
(***************************************************************************)
(* A model of the realtime voice client of 04-web-rtc-minimal-app:        *)
(*   - MicTrack: the capture callback (sounddevice thread) handing audio  *)
(*     blocks to recv() (event-loop thread) through a bounded queue;      *)
(*   - the control-channel message handler and the transcripts()          *)
(*     generator of AzureRealtimeClient;                                  *)
(*   - AzureRealtimeClient.connect() and close().                         *)
(* Each part has its own specification over its own variables.            *)
(***************************************************************************)
EXTENDS Integers, Sequences, FiniteSets, TLC

(***************************************************************************)
(* Program constants and bounds                                            *)
(***************************************************************************)
\* asyncio.Queue(maxsize=8) of MicTrack
QueueMax == 8

\* blocksize=480 of the sd.InputStream: every block has 480 frames
Blocksize == 480

\* rate of MicTrack (24 kHz)
Rate == 24000

\* bound: number of capture-callback invocations in a behaviour
MaxBlocks == 10

\* bound: number of control messages received in a behaviour
MaxMsgs == 4

\* bound: number of close() calls on one client in a behaviour
MaxCloses == 2

\* bound: number of clicks on the start and stop actions in a behaviour
MaxCallbacks == 3

\* bound: number of clients the start action constructs in a behaviour
MaxClients == 2

VARIABLES
    \* ---- MicTrack ----
    queue,       \* self._queue: the blocks held, oldest first
    pts,         \* self._pts
    cbpc,        \* position of the capture callback: "idle", "put", "wake"
    cbBlock,     \* the copied block the callback holds between its steps
    cbEscaped,   \* TRUE once an exception has escaped _callback
    getter,      \* the future recv() waits on in Queue.get: "none", "registered", "woken"
    rpc,         \* position of recv(): "idle", "register", "waiting"
    captured,    \* history: ids of the blocks delivered to _callback, in order
    enqueued,    \* history: ids of the blocks put_nowait accepted, in order
    dropped,     \* history: ids of the blocks dropped on QueueFull, in order
    returned,    \* history: the frames recv() returned, in order
    \* ---- control channel and transcripts() ----
    ready,       \* the put tasks spawned by create_task and not yet run, oldest first
    transcripts, \* self._transcripts: the strings queued, oldest first
    tpc,         \* position of the transcripts() consumer: "idle", "waiting", "woken"
    handled,     \* number of control messages handed to _on_message
    lastMsg,     \* history: the last message handed to _on_message
    msgEscaped,  \* TRUE once an exception has escaped _on_message
    recognized,  \* history: the values _on_message extracted, in receipt order
    yielded,     \* history: the strings transcripts() yielded, in order
    \* ---- AzureRealtimeClient connect() / close() ----
    pcState,     \* self.pc: "new" until RTCPeerConnection.close(), then "closed"
    senders,     \* number of tracks added to self.pc by addTrack
    handlers,    \* TRUE once the "track" and "datachannel" handlers are registered
    offerCreated,\* TRUE once createOffer() has produced an offer
    localDesc,   \* TRUE once the offer is the local description
    remoteDesc,  \* TRUE once the answer is the remote description
    session_id,  \* self.session_id: "none" or the id the service returned
    bearer,      \* self._bearer: "none" or the client secret the service returned
    mic_track,   \* self._mic_track: "none", or the track's readyState "live" / "ended"
    micStream,   \* the sd.InputStream of the MicTrack: "none", "started", "closed"
    speaker_stream, \* self._speaker_stream: "none" or the state of the stream
    posts,       \* history: the bearer sent with each handshake POST
    cpc,         \* position of connect(): "idle", "session", "offer", "setlocal",
                 \*   "post", "setremote", "done", "failed"
    connErr,     \* the exception connect() raised to its caller, or "none"
    clpc,        \* position of close(): "idle", "micstop", "pcclose", "done", "failed"
    closeErr,    \* the exception the last close() raised to its caller, or "none"
    closeCalls,  \* number of close() calls made
    closedAt,    \* history: the position of connect() when close() was first called
    spkAtClose,  \* history: the tracks whose speaker was open when close() was last called
    postStatus,  \* history: the outcome of the handshake POST: "none", "ok", "error"
    streamCloses,\* history: number of self._stream.close() calls on the capture stream
    pcCloses,    \* history: number of times self.pc went from open to closed
    \* ---- the relay tasks of _on_track, per inbound track ----
    relay,       \* the _play task of the track: "absent", "ignored", "running",
                 \*   "ended" (returned), "crashed" (an exception left it),
                 \*   "finallyError" (its finally clause raised)
    speaker,     \* the `speaker` of the track's _on_track call: "none", "open", "closed"
    gotFrame,    \* TRUE once track.recv() has returned a frame to _play
    spkOpens,    \* history: number of sd.OutputStream(...) opened for the track
    spkCloses,   \* history: number of speaker.close() calls for the track
    \* ---- main.py: the user session and the action callbacks ----
    rtc,         \* cl.user_session "rtc": 0 for None, or the client stored
    cb,          \* per callback: cmd ("none" before the click, "start", "stop"),
                 \*   at (its position in _toggle_session) and the client it holds
    uclient,     \* per AzureRealtimeClient made by a start: what connect() and
                 \*   close() have done to it, as its caller sees it
    consumer     \* per client: the _relay_transcripts task: "none", or "running"
                 \*   from create_task on (the task is not kept and never cancelled)

micVars == <<queue, pts, cbpc, cbBlock, cbEscaped, getter, rpc,
             captured, enqueued, dropped, returned>>

trVars == <<ready, transcripts, tpc, handled, lastMsg, msgEscaped, recognized, yielded>>

clVars == <<pcState, senders, handlers, offerCreated, localDesc, remoteDesc,
            session_id, bearer, mic_track, micStream, speaker_stream, posts,
            cpc, connErr, clpc, closeErr, closeCalls, closedAt, spkAtClose>>

ctVars == <<postStatus, streamCloses, pcCloses>>

rlVars == <<relay, speaker, gotFrame, spkOpens, spkCloses>>

uiVars == <<rtc, cb, uclient, consumer>>

vars == <<micVars, trVars, clVars, ctVars, rlVars, uiVars>>

(***************************************************************************)
(* MicTrack                                                                *)
(***************************************************************************)
NoBlock == [id |-> 0, samples |-> 0]

\* indata.copy(): the i-th block the stream delivers, Blocksize frames long
Block(i) == [id |-> i, samples |-> Blocksize]

\* Queue.full() as put_nowait evaluates it for maxsize=8
QueueFullOffByOne(q) == Len(q) > QueueMax
QueueFull(q) == Len(q) >= QueueMax

\* the exceptions _callback catches around put_nowait
CallbackCatchesNothing == {}
CallbackCatches == {"QueueFull"}

\* the queue after put_nowait raised QueueFull for block b: `pass`
OnQueueFullDropOldest(q, b) == Append(Tail(q), b)
OnQueueFull(q, b) == q

\* the item `await self._queue.get()` takes from a non-empty queue
QueueGetNewest(q) == [item |-> q[Len(q)], rest |-> SubSeq(q, 1, Len(q) - 1)]
QueueGet(q) == [item |-> Head(q), rest |-> Tail(q)]

\* self._pts += len(pcm)
NextPtsStuck(p, pcm) == p
NextPts(p, pcm) == p + pcm.samples

\* the AudioFrame recv() builds from pcm at timestamp p
MakeFrame(pcm, p) ==
    [id |-> pcm.id, samples |-> pcm.samples, sample_rate |-> Rate, pts |-> p]

MicInit ==
    /\ queue = <<>>
    /\ pts = 0
    /\ cbpc = "idle"
    /\ cbBlock = NoBlock
    /\ cbEscaped = FALSE
    /\ getter = "none"
    /\ rpc = "idle"
    /\ captured = <<>>
    /\ enqueued = <<>>
    /\ dropped = <<>>
    /\ returned = <<>>

\* _callback is invoked with a new block: copy it, put_nowait checks full();
\* on QueueFull the except clause runs and the callback returns.
CallbackInvoke ==
    /\ cbpc = "idle"
    /\ Len(captured) < MaxBlocks
    /\ LET b == Block(Len(captured) + 1) IN
        /\ captured' = Append(captured, b.id)
        /\ IF QueueFull(queue)
           THEN /\ cbEscaped' = (cbEscaped \/ "QueueFull" \notin CallbackCatches)
                /\ queue' = OnQueueFull(queue, b)
                /\ dropped' = Append(dropped, b.id)
                /\ UNCHANGED <<cbpc, cbBlock>>
           ELSE /\ cbpc' = "put"
                /\ cbBlock' = b
                /\ UNCHANGED <<queue, dropped, cbEscaped>>
    /\ UNCHANGED <<pts, getter, rpc, enqueued, returned>>

\* put_nowait, not full: self._put(item)
CallbackPut ==
    /\ cbpc = "put"
    /\ queue' = Append(queue, cbBlock)
    /\ enqueued' = Append(enqueued, cbBlock.id)
    /\ cbpc' = "wake"
    /\ UNCHANGED <<pts, cbBlock, cbEscaped, getter, rpc, captured, dropped, returned>>

\* put_nowait: self._wakeup_next(self._getters), then _callback returns
CallbackWake ==
    /\ cbpc = "wake"
    /\ getter' = IF getter = "registered" THEN "woken" ELSE getter
    /\ cbpc' = "idle"
    /\ cbBlock' = NoBlock
    /\ UNCHANGED <<queue, pts, cbEscaped, rpc, captured, enqueued, dropped, returned>>

\* the body of recv() once Queue.get has an item: frame, pts, return
RecvTake ==
    LET g == QueueGet(queue) IN
    /\ queue' = g.rest
    /\ returned' = Append(returned, MakeFrame(g.item, pts))
    /\ pts' = NextPts(pts, g.item)
    /\ rpc' = "idle"
    /\ getter' = "none"

\* recv() is called: Queue.get tests empty()
RecvCall ==
    /\ rpc = "idle"
    /\ IF queue = <<>>
       THEN /\ rpc' = "register"
            /\ UNCHANGED <<queue, pts, getter, returned>>
       ELSE RecvTake
    /\ UNCHANGED <<cbpc, cbBlock, cbEscaped, captured, enqueued, dropped>>

\* Queue.get found the queue empty: append a future to _getters and await it
RecvRegister ==
    /\ rpc = "register"
    /\ getter' = "registered"
    /\ rpc' = "waiting"
    /\ UNCHANGED <<queue, pts, cbpc, cbBlock, cbEscaped, captured, enqueued,
                   dropped, returned>>

\* the awaited future was resolved: Queue.get tests empty() again
RecvResume ==
    /\ rpc = "waiting"
    /\ getter = "woken"
    /\ IF queue = <<>>
       THEN /\ rpc' = "register"
            /\ getter' = "none"
            /\ UNCHANGED <<queue, pts, returned>>
       ELSE RecvTake
    /\ UNCHANGED <<cbpc, cbBlock, cbEscaped, captured, enqueued, dropped>>

MicNext ==
    \/ CallbackInvoke /\ UNCHANGED <<trVars, clVars, ctVars, rlVars, uiVars>>
    \/ CallbackPut /\ UNCHANGED <<trVars, clVars, ctVars, rlVars, uiVars>>
    \/ CallbackWake /\ UNCHANGED <<trVars, clVars, ctVars, rlVars, uiVars>>
    \/ RecvCall /\ UNCHANGED <<trVars, clVars, ctVars, rlVars, uiVars>>
    \/ RecvRegister /\ UNCHANGED <<trVars, clVars, ctVars, rlVars, uiVars>>
    \/ RecvResume /\ UNCHANGED <<trVars, clVars, ctVars, rlVars, uiVars>>

(***************************************************************************)
(* Control channel: _on_message, the spawned put tasks, transcripts()      *)
(***************************************************************************)
\* the strings a recognized message may carry
Values == {"a", "b"}

\* The data of a control message, by what json.loads and the subscripts of
\* _on_message can tell apart:
\*   valid  the text parses as JSON
\*   isObj  the parsed value is an object (a dict)
\*   type   the object's "type": "absent", "text" or another string
\*   text   the object's "text": "absent", a string ("str"), an object with
\*          no "value" ("obj") or an object with a "value" ("obj_value")
\*   value  the "value" of that object
NoValue == "-"
InvalidJson == [valid |-> FALSE, isObj |-> FALSE, type |-> "absent", text |-> "absent", value |-> NoValue]
NonObject == [valid |-> TRUE, isObj |-> FALSE, type |-> "absent", text |-> "absent", value |-> NoValue]
Objects ==
    {[valid |-> TRUE, isObj |-> TRUE, type |-> t, text |-> x, value |-> NoValue] :
        t \in {"absent", "text", "other"}, x \in {"absent", "str", "obj"}}
    \cup
    {[valid |-> TRUE, isObj |-> TRUE, type |-> t, text |-> "obj_value", value |-> v] :
        t \in {"absent", "text", "other"}, v \in Values}
Messages == {InvalidJson, NonObject} \cup Objects

\* msg.get("type") == "text"
TypeIsTextAlways(m) == TRUE
TypeIsText(m) == m.type = "text"

\* the exceptions the except clause of _on_message catches: `except Exception`
HandlerCatchesDecodeOnly == {"JSONDecodeError"}
HandlerCatches == {"JSONDecodeError", "AttributeError", "KeyError", "TypeError"}

\* The try block of _on_message on data m, statement by statement: the values
\* handed to create_task(self._transcripts.put(...)) and the exception raised.
OnMessageTry(m) ==
    IF ~m.valid THEN [puts |-> <<>>, exc |-> "JSONDecodeError"]       \* json.loads
    ELSE IF ~m.isObj THEN [puts |-> <<>>, exc |-> "AttributeError"]   \* msg.get
    ELSE IF ~TypeIsText(m) THEN [puts |-> <<>>, exc |-> "none"]
    ELSE IF m.text = "absent" THEN [puts |-> <<>>, exc |-> "KeyError"]   \* msg["text"]
    ELSE IF m.text = "str" THEN [puts |-> <<>>, exc |-> "TypeError"]     \* ["value"]
    ELSE IF m.text = "obj" THEN [puts |-> <<>>, exc |-> "KeyError"]      \* ["value"]
    ELSE [puts |-> <<m.value>>, exc |-> "none"]

\* the index in the loop's ready queue of the task the loop runs next
NextReadyNewest(r) == Len(r)
NextReady(r) == 1

RemoveAt(r, i) == SubSeq(r, 1, i - 1) \o SubSeq(r, i + 1, Len(r))

TrInit ==
    /\ ready = <<>>
    /\ transcripts = <<>>
    /\ tpc = "idle"
    /\ handled = 0
    /\ lastMsg = InvalidJson
    /\ msgEscaped = FALSE
    /\ recognized = <<>>
    /\ yielded = <<>>

\* _on_message(data): the whole handler; a recognized message spawns one task
OnMessage(m) ==
    /\ handled < MaxMsgs
    /\ handled' = handled + 1
    /\ lastMsg' = m
    /\ LET r == OnMessageTry(m) IN
        /\ ready' = ready \o r.puts
        /\ recognized' = recognized \o r.puts
        /\ msgEscaped' = (msgEscaped \/ (r.exc # "none" /\ r.exc \notin HandlerCatches))
    /\ UNCHANGED <<transcripts, tpc, yielded>>

\* the loop runs a spawned task: Queue.put on the unbounded queue appends the
\* item without suspending and wakes a waiting getter
RunPutTask ==
    /\ ready # <<>>
    /\ LET i == NextReady(ready) IN
        /\ transcripts' = Append(transcripts, ready[i])
        /\ ready' = RemoveAt(ready, i)
    /\ tpc' = IF tpc = "waiting" THEN "woken" ELSE tpc
    /\ UNCHANGED <<handled, lastMsg, msgEscaped, recognized, yielded>>

\* transcripts(): `yield await self._transcripts.get()`, advanced by the consumer
TranscriptsNext ==
    /\ tpc = "idle"
    /\ IF transcripts = <<>>
       THEN /\ tpc' = "waiting"
            /\ UNCHANGED <<transcripts, yielded>>
       ELSE /\ yielded' = Append(yielded, Head(transcripts))
            /\ transcripts' = Tail(transcripts)
            /\ UNCHANGED tpc
    /\ UNCHANGED <<ready, handled, lastMsg, msgEscaped, recognized>>

\* the suspended get() is resumed after a put woke it
TranscriptsResume ==
    /\ tpc = "woken"
    /\ IF transcripts = <<>>
       THEN /\ tpc' = "waiting"
            /\ UNCHANGED <<transcripts, yielded>>
       ELSE /\ yielded' = Append(yielded, Head(transcripts))
            /\ transcripts' = Tail(transcripts)
            /\ tpc' = "idle"
    /\ UNCHANGED <<ready, handled, lastMsg, msgEscaped, recognized>>

TrNext ==
    \/ \E m \in Messages : OnMessage(m) /\ UNCHANGED <<micVars, clVars, ctVars, rlVars, uiVars>>
    \/ RunPutTask /\ UNCHANGED <<micVars, clVars, ctVars, rlVars, uiVars>>
    \/ TranscriptsNext /\ UNCHANGED <<micVars, clVars, ctVars, rlVars, uiVars>>
    \/ TranscriptsResume /\ UNCHANGED <<micVars, clVars, ctVars, rlVars, uiVars>>

(***************************************************************************)
(* AzureRealtimeClient: __init__, connect(), close()                       *)
(*                                                                         *)
(* connect() and close() are coroutines of one event loop: the code        *)
(* between two awaits runs as one step, and the other coroutine may run    *)
(* while one is suspended at an await.  An operation of the peer           *)
(* connection checks that the connection is not closed when it is called   *)
(* and raises InvalidStateError if it is.                                  *)
(***************************************************************************)
NoErr == [at |-> "none", exc |-> "none"]

\* the outcomes of a remote call or of a step of the negotiation
Responses == {"ok", "error"}

\* What `super().stop()` of MicTrack.stop returns: MediaStreamTrack.stop() is
\* overridden by a coroutine (type: ignore[override]); where the base method
\* is a plain method it returns None and `await None` raises TypeError, where
\* it is a coroutine function the await completes.
SuperStopReturns == {"None", "awaitable"}

ClInit ==
    /\ pcState = "new"
    /\ senders = 0
    /\ handlers = FALSE
    /\ offerCreated = FALSE
    /\ localDesc = FALSE
    /\ remoteDesc = FALSE
    /\ session_id = "none"
    /\ bearer = "none"
    /\ mic_track = "none"
    /\ micStream = "none"
    /\ speaker_stream = "none"
    /\ posts = <<>>
    /\ cpc = "idle"
    /\ connErr = NoErr
    /\ clpc = "idle"
    /\ closeErr = "none"
    /\ closeCalls = 0
    /\ closedAt = "never"
    /\ spkAtClose = {}
    /\ postStatus = "none"
    /\ streamCloses = 0
    /\ pcCloses = 0

\* connect() raises exception e of step a to its caller
ConnectRaises(a, e) ==
    /\ cpc' = "failed"
    /\ connErr' = [at |-> a, exc |-> e]

\* connect() is called: _create_session sends the POST and awaits it
ConnectCall ==
    /\ cpc = "idle"
    /\ cpc' = "session"
    /\ UNCHANGED <<pcState, senders, handlers, offerCreated, localDesc, remoteDesc,
                   session_id, bearer, mic_track, micStream, speaker_stream, posts,
                   connErr, clpc, closeErr, closeCalls, closedAt, spkAtClose>>

\* the session POST returns: raise_for_status, store id and secret; then
\* MicTrack(), addTrack, the two handlers, and createOffer() is awaited
SessionResponse(r) ==
    /\ cpc = "session"
    /\ IF r = "error"
       THEN /\ ConnectRaises("session", "HTTPStatusError")
            /\ UNCHANGED <<session_id, bearer, mic_track, micStream, senders, handlers>>
       ELSE /\ session_id' = "sess1"
            /\ bearer' = "tok"
            /\ mic_track' = "live"
            /\ micStream' = "started"
            /\ IF pcState = "closed"
               THEN /\ ConnectRaises("addTrack", "InvalidStateError")
                    /\ UNCHANGED <<senders, handlers>>
               ELSE /\ senders' = senders + 1
                    /\ handlers' = TRUE
                    /\ cpc' = "offer"
                    /\ UNCHANGED connErr
    /\ UNCHANGED <<pcState, offerCreated, localDesc, remoteDesc, speaker_stream, posts,
                   clpc, closeErr, closeCalls, closedAt, spkAtClose>>

\* createOffer() returns or raises; setLocalDescription(offer) is awaited
OfferReturns(r) ==
    /\ cpc = "offer"
    /\ IF r = "error"
       THEN /\ ConnectRaises("createOffer", "InternalError")
            /\ UNCHANGED offerCreated
       ELSE /\ offerCreated' = TRUE
            /\ IF pcState = "closed"
               THEN ConnectRaises("setLocalDescription", "InvalidStateError")
               ELSE cpc' = "setlocal" /\ UNCHANGED connErr
    /\ UNCHANGED <<pcState, senders, handlers, localDesc, remoteDesc, session_id, bearer,
                   mic_track, micStream, speaker_stream, posts, clpc, closeErr,
                   closeCalls, closedAt, spkAtClose>>

\* as SetLocalReturns, with the offer POSTed a second time with the same bearer
SetLocalReturnsPostsTwice ==
    /\ cpc = "setlocal"
    /\ localDesc' = TRUE
    /\ posts' = posts \o <<bearer, bearer>>
    /\ cpc' = "post"
    /\ UNCHANGED <<pcState, senders, handlers, offerCreated, remoteDesc, session_id,
                   bearer, mic_track, micStream, speaker_stream, connErr, clpc,
                   closeErr, closeCalls, closedAt, spkAtClose>>

\* setLocalDescription returns; the offer is POSTed with the bearer and awaited
SetLocalReturns ==
    /\ cpc = "setlocal"
    /\ localDesc' = TRUE
    /\ posts' = Append(posts, bearer)
    /\ cpc' = "post"
    /\ UNCHANGED <<pcState, senders, handlers, offerCreated, remoteDesc, session_id,
                   bearer, mic_track, micStream, speaker_stream, connErr, clpc,
                   closeErr, closeCalls, closedAt, spkAtClose>>

\* as PostResponse, without ans.raise_for_status()
PostResponseNoStatusCheck(r) ==
    /\ cpc = "post"
    /\ postStatus' = r
    /\ UNCHANGED <<streamCloses, pcCloses>>
    /\ IF pcState = "closed"
       THEN ConnectRaises("setRemoteDescription", "InvalidStateError")
       ELSE cpc' = "setremote" /\ UNCHANGED connErr
    /\ UNCHANGED <<pcState, senders, handlers, offerCreated, localDesc, remoteDesc,
                   session_id, bearer, mic_track, micStream, speaker_stream, posts,
                   clpc, closeErr, closeCalls, closedAt, spkAtClose>>

\* the handshake POST returns: raise_for_status; setRemoteDescription(answer)
\* is awaited
PostResponse(r) ==
    /\ cpc = "post"
    /\ postStatus' = r
    /\ UNCHANGED <<streamCloses, pcCloses>>
    /\ IF r = "error"
       THEN ConnectRaises("post", "HTTPStatusError")
       ELSE IF pcState = "closed"
       THEN ConnectRaises("setRemoteDescription", "InvalidStateError")
       ELSE cpc' = "setremote" /\ UNCHANGED connErr
    /\ UNCHANGED <<pcState, senders, handlers, offerCreated, localDesc, remoteDesc,
                   session_id, bearer, mic_track, micStream, speaker_stream, posts,
                   clpc, closeErr, closeCalls, closedAt, spkAtClose>>

\* setRemoteDescription returns or raises; connect() returns
SetRemoteReturns(r) ==
    /\ cpc = "setremote"
    /\ IF r = "error"
       THEN /\ ConnectRaises("setRemoteDescription", "ValueError")
            /\ UNCHANGED remoteDesc
       ELSE /\ remoteDesc' = TRUE
            /\ cpc' = "done"
            /\ UNCHANGED connErr
    /\ UNCHANGED <<pcState, senders, handlers, offerCreated, localDesc, session_id,
                   bearer, mic_track, micStream, speaker_stream, posts, clpc, closeErr,
                   closeCalls, closedAt, spkAtClose>>

\* RTCPeerConnection.close() returns at once on a closed connection: the
\* number of times the connection was closed after pc.close() in state st
ClosePc(st, n) == IF st = "closed" THEN n ELSE n + 1

\* the start of every close() call
CloseEnter ==
    /\ clpc \in {"idle", "done", "failed"}
    /\ closeCalls < MaxCloses
    /\ closeCalls' = closeCalls + 1
    /\ closedAt' = IF closeCalls = 0 THEN cpc ELSE closedAt
    /\ spkAtClose' = {t \in DOMAIN speaker : speaker[t] = "open"}
    /\ speaker_stream' = IF speaker_stream = "none" THEN "none" ELSE "closed"

\* close() with self._mic_track None: pc.close() is awaited
CloseCallNoMic ==
    /\ CloseEnter
    /\ mic_track = "none"
    /\ pcState' = "closed"
    /\ pcCloses' = ClosePc(pcState, pcCloses)
    /\ UNCHANGED <<postStatus, streamCloses>>
    /\ clpc' = "pcclose"
    /\ closeErr' = "none"
    /\ UNCHANGED <<senders, handlers, offerCreated, localDesc, remoteDesc, session_id,
                   bearer, mic_track, micStream, posts, cpc, connErr>>

\* close() with a MicTrack: MicTrack.stop() runs super().stop(), which ends the
\* track, and awaits what it returned
CloseCallMic(res) ==
    /\ CloseEnter
    /\ mic_track # "none"
    /\ mic_track' = "ended"
    /\ IF res = "None"
       THEN clpc' = "failed" /\ closeErr' = "TypeError"
       ELSE clpc' = "micstop" /\ closeErr' = "none"
    /\ UNCHANGED <<pcState, senders, handlers, offerCreated, localDesc, remoteDesc,
                   session_id, bearer, micStream, posts, cpc, connErr>>

\* MicTrack.stop() continues: self._stream.stop(), self._stream.close(); back in
\* close(), pc.close() is awaited
CloseMicStopped ==
    /\ clpc = "micstop"
    /\ micStream' = "closed"
    /\ streamCloses' = streamCloses + 1
    /\ pcState' = "closed"
    /\ pcCloses' = ClosePc(pcState, pcCloses)
    /\ UNCHANGED postStatus
    /\ clpc' = "pcclose"
    /\ UNCHANGED <<senders, handlers, offerCreated, localDesc, remoteDesc, session_id,
                   bearer, mic_track, speaker_stream, posts, cpc, connErr, closeErr,
                   closeCalls, closedAt, spkAtClose>>

\* pc.close() returns and close() returns
CloseReturn ==
    /\ clpc = "pcclose"
    /\ clpc' = "done"
    /\ UNCHANGED <<pcState, senders, handlers, offerCreated, localDesc, remoteDesc,
                   session_id, bearer, mic_track, micStream, speaker_stream, posts,
                   cpc, connErr, closeErr, closeCalls, closedAt, spkAtClose>>

(***************************************************************************)
(* The inbound tracks: _on_track and the _play task it spawns              *)
(***************************************************************************)
\* the inbound tracks of a behaviour: two audio tracks and a video track
Tracks == {"audio1", "audio2", "video1"}

Kind(t) == IF t = "video1" THEN "video" ELSE "audio"

\* _on_track returns at once unless track.kind is "audio"
SpawnsRelayAlways(k) == TRUE
SpawnsRelay(k) == k = "audio"

\* `if speaker is None:` open and start an OutputStream for the frame
OpenSpeaker(sp) == IF sp = "none" THEN "open" ELSE sp

\* the finally clause of _play: stop and close the speaker if there is one
FinallySpeaker(sp) == IF sp = "none" THEN "none" ELSE "closed"

\* the speakers after the _play task of track t has left its loop: `speaker`
\* is a local of the _on_track call of t
AfterPlayShared(spk, t) == [u \in Tracks |-> FinallySpeaker(spk[u])]
AfterPlay(spk, t) == [spk EXCEPT ![t] = FinallySpeaker(spk[t])]

RlInit ==
    /\ relay = [t \in Tracks |-> "absent"]
    /\ speaker = [t \in Tracks |-> "none"]
    /\ gotFrame = [t \in Tracks |-> FALSE]
    /\ spkOpens = [t \in Tracks |-> 0]
    /\ spkCloses = [t \in Tracks |-> 0]

\* number of close() calls the step from speakers spk to speakers spk2 made on
\* the speaker of track u
ClosesOf(spk, spk2, u) == IF spk[u] # spk2[u] /\ spk2[u] = "closed" THEN 1 ELSE 0

\* the "track" event for track t, raised while the answer is being applied or
\* after: _on_track spawns _play for an audio track, which awaits track.recv()
OnTrack(t) ==
    /\ handlers
    /\ cpc \in {"setremote", "done"}
    /\ relay[t] = "absent"
    /\ relay' = [relay EXCEPT ![t] = IF SpawnsRelay(Kind(t)) THEN "running" ELSE "ignored"]
    /\ UNCHANGED <<speaker, gotFrame, spkOpens, spkCloses>>

\* track.recv() returns a frame to _play: open the speaker if there is none,
\* convert and write the frame
RelayFrame(t) ==
    /\ relay[t] = "running"
    /\ gotFrame' = [gotFrame EXCEPT ![t] = TRUE]
    /\ speaker' = [speaker EXCEPT ![t] = OpenSpeaker(speaker[t])]
    /\ spkOpens' = [spkOpens EXCEPT ![t] =
                        IF speaker[t] = "open" /\ OpenSpeaker(speaker[t]) = "open"
                        THEN @ ELSE @ + 1]
    /\ UNCHANGED <<relay, spkCloses>>

\* whether the finally clause raises for speaker sp: it tests
\* `speaker is not None` before it calls stop() and close()
FinallyRaises(sp) == FALSE

\* the task of track t leaves its loop: the finally clause runs
PlayLeaves(t, how) ==
    /\ relay[t] = "running"
    /\ relay' = [relay EXCEPT ![t] = IF FinallyRaises(speaker[t]) THEN "finallyError" ELSE how]
    /\ speaker' = AfterPlay(speaker, t)
    /\ spkCloses' = [u \in Tracks |-> spkCloses[u] + ClosesOf(speaker, speaker', u)]
    /\ UNCHANGED <<gotFrame, spkOpens>>

\* track.recv() raises MediaStreamError (the track has ended): caught, the
\* finally clause runs and _play returns
RelayEnd(t) == PlayLeaves(t, "ended")

\* another exception is raised in the loop (by recv, the conversion or the
\* write): the finally clause runs and the exception leaves the task
RelayFails(t) == PlayLeaves(t, "crashed")

ClNext ==
    \/ ConnectCall /\ UNCHANGED <<micVars, trVars, ctVars, rlVars, uiVars>>
    \/ \E r \in Responses : SessionResponse(r) /\ UNCHANGED <<micVars, trVars, ctVars, rlVars, uiVars>>
    \/ \E r \in Responses : OfferReturns(r) /\ UNCHANGED <<micVars, trVars, ctVars, rlVars, uiVars>>
    \/ SetLocalReturns /\ UNCHANGED <<micVars, trVars, ctVars, rlVars, uiVars>>
    \/ \E r \in Responses : PostResponse(r) /\ UNCHANGED <<micVars, trVars, rlVars, uiVars>>
    \/ \E r \in Responses : SetRemoteReturns(r) /\ UNCHANGED <<micVars, trVars, ctVars, rlVars, uiVars>>
    \/ CloseCallNoMic /\ UNCHANGED <<micVars, trVars, rlVars, uiVars>>
    \/ \E res \in SuperStopReturns : CloseCallMic(res) /\ UNCHANGED <<micVars, trVars, ctVars, rlVars, uiVars>>
    \/ CloseMicStopped /\ UNCHANGED <<micVars, trVars, rlVars, uiVars>>
    \/ CloseReturn /\ UNCHANGED <<micVars, trVars, ctVars, rlVars, uiVars>>
    \/ \E t \in Tracks : OnTrack(t) /\ UNCHANGED <<micVars, trVars, clVars, ctVars, uiVars>>
    \/ \E t \in Tracks : RelayFrame(t) /\ UNCHANGED <<micVars, trVars, clVars, ctVars, uiVars>>
    \/ \E t \in Tracks : RelayEnd(t) /\ UNCHANGED <<micVars, trVars, clVars, ctVars, uiVars>>
    \/ \E t \in Tracks : RelayFails(t) /\ UNCHANGED <<micVars, trVars, clVars, ctVars, uiVars>>

(***************************************************************************)
(* main.py: _toggle_session run by the action callbacks cb_start and       *)
(* cb_stop.  Callbacks are coroutines of one event loop: each runs from    *)
(* one await to the next without interruption and they interleave at the   *)
(* awaits.  connect() and close() of a client appear here as their caller  *)
(* sees them: connect() suspends at the session POST and again during the  *)
(* negotiation, close() suspends at pc.close().                            *)
(***************************************************************************)
Callbacks == 1..MaxCallbacks
Clients == 1..MaxClients

NoClient == [state |-> "absent", micStream |-> "none", pc |-> "none",
             closeCalls |-> 0, streamCloses |-> 0]

UiInit ==
    /\ rtc = 0
    /\ cb = [k \in Callbacks |-> [cmd |-> "none", at |-> "idle", client |-> 0]]
    /\ uclient = [c \in Clients |-> NoClient]
    /\ consumer = [c \in Clients |-> "none"]

\* the callbacks are numbered in the order of the clicks
NextClick(k) ==
    /\ cb[k].cmd = "none"
    /\ k > 1 => cb[k - 1].cmd # "none"

\* the clients are numbered in the order of their construction
Fresh(c) ==
    /\ uclient[c].state = "absent"
    /\ c > 1 => uclient[c - 1].state # "absent"

\* the test of the start branch: a client is stored under "rtc"
AlreadyLive(r) == r # 0

\* cb_start: the test of "rtc", then AzureRealtimeClient() and connect() up
\* to the session POST
StartClicked(k) ==
    /\ NextClick(k)
    /\ IF AlreadyLive(rtc)
       THEN /\ cb' = [cb EXCEPT ![k] = [cmd |-> "start", at |-> "refused", client |-> 0]]
            /\ UNCHANGED uclient
       ELSE \E c \in Clients :
            /\ Fresh(c)
            /\ cb' = [cb EXCEPT ![k] = [cmd |-> "start", at |-> "session", client |-> c]]
            /\ uclient' = [uclient EXCEPT ![c] = [NoClient EXCEPT !.state = "connecting",
                                                                   !.pc = "new"]]
    /\ UNCHANGED <<rtc, consumer>>

\* connect() of the callback's client: the session POST returns; on success
\* MicTrack() opens the capture stream and the negotiation is awaited, on an
\* error status connect() raises out of _toggle_session
StartSessionResponse(k, r) ==
    /\ cb[k].cmd = "start"
    /\ cb[k].at = "session"
    /\ LET c == cb[k].client IN
        IF r = "error"
        THEN /\ uclient' = [uclient EXCEPT ![c].state = "failed"]
             /\ cb' = [cb EXCEPT ![k].at = "raised"]
        ELSE /\ uclient' = [uclient EXCEPT ![c].micStream = "started"]
             /\ cb' = [cb EXCEPT ![k].at = "negotiate"]
    /\ UNCHANGED <<rtc, consumer>>

\* connect() ends: an exception of the negotiation leaves _toggle_session;
\* on success "rtc" is set and the consumer task is created
StartConnectReturns(k, r) ==
    /\ cb[k].cmd = "start"
    /\ cb[k].at = "negotiate"
    /\ LET c == cb[k].client IN
        IF r = "error"
        THEN /\ uclient' = [uclient EXCEPT ![c].state = "failed"]
             /\ cb' = [cb EXCEPT ![k].at = "raised"]
             /\ UNCHANGED <<rtc, consumer>>
        ELSE /\ uclient' = [uclient EXCEPT ![c].state = "connected"]
             /\ rtc' = c
             /\ consumer' = [consumer EXCEPT ![c] = "running"]
             /\ cb' = [cb EXCEPT ![k].at = "done"]

\* cb_stop: read "rtc"; with a client, close() runs MicTrack.stop and is
\* suspended at pc.close(), or raises the TypeError of `await super().stop()`
StopClicked(k, res) ==
    /\ NextClick(k)
    /\ IF rtc = 0
       THEN /\ cb' = [cb EXCEPT ![k] = [cmd |-> "stop", at |-> "done", client |-> 0]]
            /\ UNCHANGED uclient
       ELSE LET c == rtc
                u == uclient[c] IN
            IF u.micStream # "none" /\ res = "None"
            THEN /\ cb' = [cb EXCEPT ![k] = [cmd |-> "stop", at |-> "raised", client |-> c]]
                 /\ uclient' = [uclient EXCEPT ![c].closeCalls = @ + 1]
            ELSE /\ cb' = [cb EXCEPT ![k] = [cmd |-> "stop", at |-> "closing", client |-> c]]
                 /\ uclient' = [uclient EXCEPT
                        ![c].closeCalls = @ + 1,
                        ![c].micStream = IF u.micStream = "none" THEN "none" ELSE "closed",
                        ![c].streamCloses = IF u.micStream = "none" THEN @ ELSE @ + 1]
    /\ UNCHANGED <<rtc, consumer>>

\* close() returns to the stop branch, which sets "rtc" to None
StopCloseReturns(k) ==
    /\ cb[k].cmd = "stop"
    /\ cb[k].at = "closing"
    /\ uclient' = [uclient EXCEPT ![cb[k].client].pc = "closed"]
    /\ rtc' = 0
    /\ cb' = [cb EXCEPT ![k].at = "done"]
    /\ UNCHANGED consumer

UiNext ==
    \/ \E k \in Callbacks : StartClicked(k) /\ UNCHANGED <<micVars, trVars, clVars, ctVars, rlVars>>
    \/ \E k \in Callbacks, r \in Responses :
            StartSessionResponse(k, r) /\ UNCHANGED <<micVars, trVars, clVars, ctVars, rlVars>>
    \/ \E k \in Callbacks, r \in Responses :
            StartConnectReturns(k, r) /\ UNCHANGED <<micVars, trVars, clVars, ctVars, rlVars>>
    \/ \E k \in Callbacks, res \in SuperStopReturns :
            StopClicked(k, res) /\ UNCHANGED <<micVars, trVars, clVars, ctVars, rlVars>>
    \/ \E k \in Callbacks : StopCloseReturns(k) /\ UNCHANGED <<micVars, trVars, clVars, ctVars, rlVars>>

Init == MicInit /\ TrInit /\ ClInit /\ RlInit /\ UiInit

SpecMic == Init /\ [][MicNext]_vars

\* SpecMic with the scheduling the code runs under: the audio thread finishes a
\* callback it has begun, and the event loop runs a recv() that is ready to
\* run; when the next block arrives and when recv() is called is left open.
MicFairness ==
    /\ WF_vars(CallbackPut /\ UNCHANGED <<trVars, clVars, ctVars, rlVars, uiVars>>)
    /\ WF_vars(CallbackWake /\ UNCHANGED <<trVars, clVars, ctVars, rlVars, uiVars>>)
    /\ WF_vars(RecvRegister /\ UNCHANGED <<trVars, clVars, ctVars, rlVars, uiVars>>)
    /\ WF_vars(RecvResume /\ UNCHANGED <<trVars, clVars, ctVars, rlVars, uiVars>>)

SpecMicFair == Init /\ [][MicNext]_vars /\ MicFairness

SpecTranscripts == Init /\ [][TrNext]_vars

SpecClient == Init /\ [][ClNext]_vars

SpecUI == Init /\ [][UiNext]_vars

(***************************************************************************)
(* Properties of MicTrack (under SpecMic)                                  *)
(***************************************************************************)
Ids(s) == [i \in 1..Len(s) |-> s[i].id]

RECURSIVE IsSubseq(_, _)
\* s can be obtained from t by deleting elements
IsSubseq(s, t) ==
    IF s = <<>> THEN TRUE
    ELSE IF t = <<>> THEN FALSE
    ELSE IF Head(s) = Head(t) THEN IsSubseq(Tail(s), Tail(t))
    ELSE IsSubseq(s, Tail(t))

\* no recv() call has been made so far
NoRecvYet == returned = <<>> /\ rpc = "idle"

\* C1: under any interleaving of callback steps and recv() steps the queue
\* holds at most 8 blocks, no exception escapes _callback, and a callback that
\* has started can always take its next step (it never waits for recv()).
C1_QueueBoundedCallbackCompletes ==
    /\ Len(queue) <= QueueMax
    /\ ~cbEscaped
    /\ (cbpc = "put" => ENABLED CallbackPut)
    /\ (cbpc = "wake" => ENABLED CallbackWake)

\* C1 witness: the callback ran against a full queue and returned, with
\* recv() calls interleaved before it.
C1_Witness ==
    /\ dropped # <<>>
    /\ returned # <<>>
    /\ Len(queue) = QueueMax
    /\ cbpc = "idle"

\* C2: a callback invoked while the queue holds 8 blocks discards the block it
\* was given: the queue is unchanged, the new block is recorded as dropped,
\* nothing escapes and the callback has returned.
C2_FullQueueDropsNewBlock ==
    [][(cbpc = "idle" /\ Len(queue) = QueueMax /\ captured' # captured)
        => /\ queue' = queue
           /\ dropped' = Append(dropped, captured'[Len(captured')])
           /\ enqueued' = enqueued
           /\ cbEscaped' = FALSE
           /\ cbpc' = "idle"]_vars

\* C2 witness: a block was dropped while the 8 queued blocks stayed.
C2_Witness ==
    /\ Len(dropped) >= 1
    /\ Len(queue) = QueueMax
    /\ Ids(queue) = SubSeq(enqueued, Len(enqueued) - QueueMax + 1, Len(enqueued))

\* C3 as stated: after k > 8 callbacks and no recv(), the k-8 oldest blocks
\* are the ones lost and the queue holds the 8 most recent blocks.
C3_OldestDropped ==
    (NoRecvYet /\ cbpc = "idle" /\ Len(captured) > QueueMax)
        => /\ Ids(queue) = SubSeq(captured, Len(captured) - QueueMax + 1, Len(captured))
           /\ dropped = SubSeq(captured, 1, Len(captured) - QueueMax)

\* C3 amended: after k > 8 callbacks and no recv(), the k-8 newest blocks are
\* the ones lost and the queue holds the 8 blocks captured first.
C3_NewestDropped ==
    (NoRecvYet /\ cbpc = "idle" /\ Len(captured) > QueueMax)
        => /\ Ids(queue) = SubSeq(captured, 1, QueueMax)
           /\ dropped = SubSeq(captured, QueueMax + 1, Len(captured))

\* C3 witness: at least two blocks more than the capacity were captured with
\* no recv() in between.
C3_Witness ==
    /\ NoRecvYet
    /\ cbpc = "idle"
    /\ Len(captured) >= QueueMax + 2
    /\ Len(dropped) >= 2

\* C4: recv() returns the enqueued blocks in enqueue order; the first frame
\* has pts 0 and every later frame's pts is the previous frame's pts plus the
\* previous frame's sample count, which is strictly larger.
C4_RecvFifoAndPts ==
    /\ Len(returned) <= Len(enqueued)
    /\ \A i \in 1..Len(returned) : returned[i].id = enqueued[i]
    /\ returned # <<>> => returned[1].pts = 0
    /\ \A i \in 1..(Len(returned) - 1) :
          /\ returned[i + 1].pts = returned[i].pts + returned[i].samples
          /\ returned[i + 1].pts > returned[i].pts

\* C4 witness: three blocks were enqueued and three recv() calls returned
\* them, leaving the queue empty.
C4_Witness ==
    /\ Len(enqueued) = 3
    /\ Len(returned) = 3
    /\ queue = <<>>
    /\ returned[3].pts = 2 * Blocksize

\* C5: the blocks recv() has returned are an order-preserving subsequence of
\* the blocks delivered to the callback, none returned twice.
C5_ReturnedIsSubsequence ==
    /\ IsSubseq(Ids(returned), captured)
    /\ \A i, j \in 1..Len(returned) : i < j => returned[i].id < returned[j].id

\* C5 witness: a block was dropped and a block captured after it was
\* returned by recv().
C5_Witness ==
    /\ dropped # <<>>
    /\ \E i \in 1..Len(returned) : returned[i].id > dropped[1]

(***************************************************************************)
(* Properties of the control channel (under SpecTranscripts)               *)
(***************************************************************************)
IsPrefix(s, t) == Len(s) <= Len(t) /\ SubSeq(t, 1, Len(s)) = s

\* the recognized shape {"type": "text", "text": {"value": v}}
IsTranscriptShape(m) ==
    m.valid /\ m.isObj /\ m.type = "text" /\ m.text = "obj_value"

\* C6: what transcripts() has yielded is a prefix of the values of the
\* recognized messages in receipt order, and every such value is yielded,
\* queued or held by a spawned task still to run, in that order: none is
\* reordered, duplicated or lost.
C6_TranscriptsInReceiptOrder ==
    /\ IsPrefix(yielded, recognized)
    /\ yielded \o transcripts \o ready = recognized

\* C6 witness: two different transcripts were yielded while a third put task
\* was still waiting to run.
C6_Witness ==
    /\ Len(yielded) >= 2
    /\ yielded[1] # yielded[2]
    /\ ready # <<>>

\* C7: a message of the recognized shape makes the handler spawn exactly one
\* put of its value; any other message (invalid JSON, not an object, another
\* type, type "text" without text.value) spawns nothing; the handler itself
\* leaves the transcript queue unchanged and lets no exception escape; and a
\* spawned put, when it runs, queues exactly its one value.
C7_HandlerQueuesExactlyRecognized ==
    [][/\ handled' # handled =>
            /\ IF IsTranscriptShape(lastMsg')
               THEN /\ ready' = Append(ready, lastMsg'.value)
                    /\ recognized' = Append(recognized, lastMsg'.value)
               ELSE /\ ready' = ready
                    /\ recognized' = recognized
            /\ transcripts' = transcripts
            /\ msgEscaped' = FALSE
       /\ (handled' = handled /\ ready' # ready) =>
            /\ ready' = Tail(ready)
            /\ transcripts' = Append(transcripts, Head(ready))]_vars

\* C7 witness: a recognized message was queued as one event and two
\* malformed messages (the last one invalid JSON) queued nothing.
C7_Witness ==
    /\ handled = 3
    /\ lastMsg = InvalidJson
    /\ recognized = <<"a">>
    /\ transcripts = <<"a">>
    /\ ready = <<>>
    /\ ~msgEscaped

(***************************************************************************)
(* Properties of connect() and close() (under SpecClient)                  *)
(***************************************************************************)
\* C8 as stated: when the only close() call was made before connect() was
\* called, or while connect() was suspended at the session POST or at the
\* handshake POST, then once close() has returned and connect() has ended,
\* close() has not raised and no capture stream, playback stream or
\* connection is open.
C8_CloseBeforeConnectCompletes ==
    (/\ closeCalls = 1
     /\ clpc \in {"done", "failed"}
     /\ \/ closedAt = "idle" /\ cpc = "idle"
        \/ closedAt \in {"session", "post"} /\ cpc \in {"done", "failed"})
        => /\ clpc = "done"
           /\ closeErr = "none"
           /\ micStream # "started"
           /\ speaker_stream \in {"none", "closed"}
           /\ pcState = "closed"

\* C9 as stated: when the session call fails, connect() raises its error, no
\* session id or bearer is stored, no MicTrack exists, no offer was made or
\* posted, and the connection made by the constructor is not left unclosed.
C9_SessionFailureLeavesNothingOpen ==
    (cpc = "failed" /\ connErr.at = "session")
        => /\ connErr.exc = "HTTPStatusError"
           /\ session_id = "none"
           /\ bearer = "none"
           /\ mic_track = "none"
           /\ micStream = "none"
           /\ ~offerCreated
           /\ posts = <<>>
           /\ pcState = "closed"

\* C10 as stated: after connect() has failed, at whichever step, the error
\* has reached the caller, the capture stream it started is stopped, the
\* connection is closed and the answer has not been applied.
C10_FailedConnectIsClosed ==
    cpc = "failed"
        => /\ connErr # NoErr
           /\ micStream # "started"
           /\ pcState = "closed"
           /\ ~remoteDesc

\* C11 as stated: once a close() that was called while playback streams were
\* open has ended, each of those streams is stopped and closed, no relay task
\* is running, no playback or capture stream is open and the connection is
\* closed.
C11_CloseReleasesPlaybackAndCapture ==
    (clpc \in {"done", "failed"} /\ spkAtClose # {})
        => /\ \A t \in spkAtClose : speaker[t] = "closed"
           /\ \A t \in Tracks : relay[t] # "running" /\ speaker[t] # "open"
           /\ micStream # "started"
           /\ pcState = "closed"

\* C12 as stated: every execution of close() ends without raising and with
\* the connection closed, whatever happened in its earlier steps.
C12_TeardownIsBestEffort ==
    clpc \in {"done", "failed"}
        => /\ clpc = "done"
           /\ closeErr = "none"
           /\ pcState = "closed"

\* C13 as stated: once close() has been called (one or more times) and
\* neither connect() nor close() is in progress, the connection has been
\* closed exactly once and the capture stream, if one was opened, has been
\* closed exactly once.
C13_ClosedExactlyOnce ==
    (closeCalls >= 1 /\ clpc \in {"done", "failed"} /\ cpc \in {"idle", "done", "failed"})
        => /\ pcCloses = 1
           /\ micStream # "none" => streamCloses = 1

\* the lifecycle state: 0 UNINITIALIZED, 1 SESSION_CREATED, 2 CONNECTING,
\* 3 CONNECTED, 4 CLOSED
Phase ==
    IF pcState = "closed" THEN 4
    ELSE IF cpc = "done" THEN 3
    ELSE IF offerCreated THEN 2
    ELSE IF session_id # "none" THEN 1
    ELSE 0

\* the order of the steps of connect()
ConnectOrder ==
    /\ (mic_track # "none" \/ senders > 0) => session_id # "none"
    /\ offerCreated => (handlers /\ senders > 0)
    /\ posts # <<>> => (localDesc /\ offerCreated)
    /\ remoteDesc => (postStatus = "ok" /\ posts # <<>>)
    /\ cpc = "done" =>
          /\ session_id # "none" /\ senders = 1 /\ handlers /\ offerCreated
          /\ localDesc /\ Len(posts) = 1 /\ postStatus = "ok" /\ remoteDesc
          /\ connErr = NoErr

\* C14: every step keeps or advances the lifecycle state (UNINITIALIZED,
\* SESSION_CREATED, CONNECTING, CONNECTED, CLOSED; nothing follows CLOSED) and
\* keeps the order of connect(): session before the capture adapter, handlers
\* before the offer, local description before the POST, answer applied only
\* after a success response, CONNECTED only with every step done.
C14_LifecycleMovesForward ==
    [][Phase' >= Phase /\ ConnectOrder']_vars

\* C14 witness: the client went through connect() to CONNECTED and was then
\* closed.
C14_Witness ==
    /\ cpc = "done"
    /\ closedAt = "done"
    /\ pcState = "closed"
    /\ remoteDesc

\* C15: at most one handshake POST is sent, it carries the bearer stored by
\* the session creation that preceded it, and no bearer is sent twice.
C15_BearerUsedOnce ==
    /\ Len(posts) <= 1
    /\ \A i \in 1..Len(posts) :
          /\ posts[i] # "none"
          /\ posts[i] = bearer
          /\ session_id # "none"
    /\ \A i, j \in 1..Len(posts) : i # j => posts[i] # posts[j]

\* C15 witness: connect() completed with its one POST carrying the bearer.
C15_Witness ==
    /\ cpc = "done"
    /\ posts = <<"tok">>
    /\ bearer = "tok"

\* what C16 says of every state
RelayStreams ==
    \A t \in Tracks :
        /\ spkOpens[t] <= 1
        /\ spkCloses[t] <= 1
        /\ relay[t] \in {"absent", "ignored"} => speaker[t] = "none"
        /\ relay[t] = "running" => speaker[t] # "closed"
        /\ relay[t] \in {"ended", "crashed"} =>
              (speaker[t] # "open" /\ spkCloses[t] = spkOpens[t])

\* C16: every track has its own relay task and playback stream; a stream is
\* opened at most once and, when its task leaves the loop (end of stream or
\* another exception), stopped and closed exactly once; and the step in which
\* one task ends changes no other track's task or stream.
C16_RelaysAreIndependent ==
    [][/\ RelayStreams'
       /\ \A t \in Tracks :
            (relay[t] = "running" /\ relay'[t] # "running")
                => \A u \in Tracks \ {t} :
                        relay'[u] = relay[u] /\ speaker'[u] = speaker[u]]_vars

\* C16 witness: the task of one audio track has ended and its stream is
\* closed, while the other audio track's task runs with its stream open.
C16_Witness ==
    /\ relay["audio1"] = "crashed"
    /\ speaker["audio1"] = "closed"
    /\ relay["audio2"] = "running"
    /\ speaker["audio2"] = "open"

\* C20: a track that is not audio gets no relay task and no playback stream;
\* an audio track's stream is opened at most once and only after a frame was
\* pulled; a track that ends before its first frame has opened no stream and
\* its task has returned without an exception.
C20_LazyPlaybackStream ==
    \A t \in Tracks :
        /\ Kind(t) # "audio" =>
              (relay[t] \in {"absent", "ignored"} /\ speaker[t] = "none" /\ spkOpens[t] = 0)
        /\ spkOpens[t] <= 1
        /\ spkOpens[t] >= 1 => gotFrame[t]
        /\ (relay[t] # "running" /\ relay[t] # "crashed" /\ ~gotFrame[t]) =>
              (speaker[t] = "none" /\ spkOpens[t] = 0 /\ spkCloses[t] = 0)
        /\ (relay[t] = "crashed" /\ ~gotFrame[t]) => speaker[t] = "none"
        /\ relay[t] # "finallyError"

\* C20 witness: the video track was ignored, one audio track ended before any
\* frame with no stream opened, the other opened its stream on a frame.
C20_Witness ==
    /\ relay["video1"] = "ignored"
    /\ relay["audio1"] = "ended"
    /\ ~gotFrame["audio1"]
    /\ spkOpens["audio1"] = 0
    /\ gotFrame["audio2"]
    /\ spkOpens["audio2"] = 1

\* C17 as stated: a recv() that found the queue empty and is suspended
\* returns once the capture callback has put a block into the queue.
C17_SuspendedRecvReturns ==
    (rpc = "waiting" /\ queue # <<>>) ~> (rpc = "idle")

(***************************************************************************)
(* Properties of the UI layer (under SpecUI)                               *)
(***************************************************************************)
\* C18 as stated (its last clause): once a stop callback has closed a client
\* and ended, the consumer task started for that client is no longer running.
C18_ConsumerCancelledAtClose ==
    \A k \in Callbacks :
        (cb[k].cmd = "stop" /\ cb[k].at \in {"done", "raised"} /\ cb[k].client # 0)
            => consumer[cb[k].client] # "running"

\* C19 as stated: after a start whose connect() raised, "rtc" does not hold
\* the failed client, and the failed client has been closed: its capture
\* stream is not running and its connection is closed.
C19_FailedStartIsClosed ==
    \A k \in Callbacks :
        (cb[k].cmd = "start" /\ cb[k].at = "raised")
            => /\ rtc # cb[k].client
               /\ uclient[cb[k].client].micStream # "started"
               /\ uclient[cb[k].client].pc = "closed"

\* the clients that are connected and whose connection is not closed
Live == {c \in Clients : uclient[c].state = "connected" /\ uclient[c].pc # "closed"}

\* C21 as stated: at most one client is connected and not closed, and every
\* such client is the one stored under "rtc".
C21_AtMostOneLiveClient ==
    /\ \A c, d \in Live : c = d
    /\ \A c \in Live : rtc = c

\* C22 as stated: over any interleaving of stop callbacks, close() is invoked
\* at most once on each client.
C22_CloseInvokedAtMostOnce ==
    \A c \in Clients : uclient[c].closeCalls <= 1

====
